---- MODULE Spec2Model ----
(***************************************************************************)
(* The chat backend of src/src/app.js: an express application over two     *)
(* MongoDB collections, participants and messages, and a timer-driven      *)
(* sweep (removeInactiveUsers) that removes stale participants.            *)
(*                                                                         *)
(* Every `await` of a handler is a point where other handlers and the      *)
(* sweep may run.  A store operation is atomic; it is one action.  The     *)
(* code that runs between two awaits is an action of its own only where it *)
(* reads the clock or sends the response; a continuation that does nothing *)
(* but issue the next store operation is part of the action of the         *)
(* operation before it.                                                    *)
(*                                                                         *)
(* Time is counted in seconds (Date.now() / 1000).  The `time` field of a  *)
(* message (dayjs().format('HH:mm:ss')) is written once and never read by  *)
(* the program; messages are modelled without it.                          *)
(***************************************************************************)
EXTENDS Integers, Sequences, FiniteSets, TLC

VARIABLES
    participants,   \* the participants collection, in insertion order
    messages,       \* the messages collection, in insertion order
    clock,          \* Date.now(), in seconds
    nextSweep,      \* the time at which the interval timer is next due
    reqs,           \* the requests being handled: slot -> handler state
    sweeps          \* the invocations of removeInactiveUsers: slot -> state

vars == <<participants, messages, clock, nextSweep, reqs, sweeps>>

----------------------------------------------------------------------------
(* Bounds of the model *)

MaxClock == 20      \* the clock stops here
TickStep == 5       \* the clock advances in steps of this many seconds
MaxMessages == 3    \* no insert into messages beyond this length
MaxReqs == 2        \* requests handled at the same time
MaxSweeps == 2      \* sweeps running at the same time
MaxStore == 2       \* participants in a store the sweep is started on
MaxLimitLen == 2    \* characters of a limit query string

(* Program constants *)

InactiveAfter == 10     \* Date.now() - 10000
SweepEvery == 15        \* setInterval(removeInactiveUsers, 15000)

Names == {"a", "b"}
ReqSlots == 1..MaxReqs
SweepSlots == 1..MaxSweeps

----------------------------------------------------------------------------
(* Values of a JSON payload: a string or a number *)

Str(s) == [t |-> "string", v |-> s]
Num(s) == [t |-> "number", v |-> s]

(* joi.string().required(): the key is present, its value is a string, and
   the string is not empty.  An object schema allows no unknown key.
   validate(..., {abortEarly: false}) reports every violation. *)
StringRequiredErrors(body, key) ==
    IF key \notin DOMAIN body THEN <<key \o " is required">>
    ELSE IF body[key].t # "string" THEN <<key \o " must be a string">>
    ELSE IF body[key].v = "" THEN <<key \o " is not allowed to be empty">>
    ELSE <<>>

RECURSIVE UnknownKeyErrors(_, _)
UnknownKeyErrors(keys, known) ==
    IF keys \subseteq known THEN <<>>
    ELSE LET k == CHOOSE k \in keys \ known : TRUE
         IN  <<k \o " is not allowed">> \o UnknownKeyErrors(keys \ {k}, known)

\* a schema that asks only for the key
schemaNameAnyValue(body) ==
    IF "name" \in DOMAIN body THEN <<>> ELSE <<"name is required">>

schemaName(body) ==
    StringRequiredErrors(body, "name") \o UnknownKeyErrors(DOMAIN body, {"name"})

(* The payloads a register request is tried with *)
RegisterBodies ==
    { [name |-> Str(n)] : n \in Names }
    \cup { [name |-> Str("")], [name |-> Num("1")], [other |-> Str("a")] }

----------------------------------------------------------------------------
(* The store *)

Participant(n, t) == [name |-> n, lastStatus |-> t]

JoinMessage(n) ==
    [from |-> n, to |-> "Todos", text |-> "entra na sala...", type |-> "status"]

LeaveMessage(n) ==
    [from |-> n, to |-> "Todos", text |-> "sai da sala...", type |-> "status"]

\* collection("participants").findOne({ name: n }): is there such a document
FindOne(ps, n) == \E i \in 1..Len(ps) : ps[i].name = n

\* how many documents of the collection have the name n
CountName(ps, n) == Cardinality({i \in 1..Len(ps) : ps[i].name = n})

\* an update that inserts the document when there is none to update
UpdateOneUpsert(ps, n, t) ==
    IF FindOne(ps, n)
    THEN LET i == CHOOSE i \in 1..Len(ps) :
                    /\ ps[i].name = n
                    /\ \A j \in 1..(i - 1) : ps[j].name # n
         IN  [ps EXCEPT ![i].lastStatus = t]
    ELSE Append(ps, Participant(n, t))

\* updateOne({ name: n }, { $set: { lastStatus: t } }): the first match only,
\* and nothing when there is none (no upsert)
UpdateOne(ps, n, t) ==
    IF FindOne(ps, n)
    THEN LET i == CHOOSE i \in 1..Len(ps) :
                    /\ ps[i].name = n
                    /\ \A j \in 1..(i - 1) : ps[j].name # n
         IN  [ps EXCEPT ![i].lastStatus = t]
    ELSE ps

\* a find without its filter
FindInactiveNoFilter(ps, threshold) == ps

\* find({ lastStatus: { $lte: threshold } }).toArray()
FindInactive(ps, threshold) ==
    SelectSeq(ps, LAMBDA p : p.lastStatus <= threshold)

\* deleteMany({ name: { $in: names } })
DeleteMany(ps, names) ==
    SelectSeq(ps, LAMBDA p : \A i \in 1..Len(names) : names[i] # p.name)

\* inactiveUsers.map(user => user.name)
RECURSIVE NamesOf(_)
NamesOf(ps) ==
    IF ps = <<>> THEN <<>> ELSE <<Head(ps).name>> \o NamesOf(Tail(ps))

\* inactiveUsers.map(user => ({from: user.name, ... 'sai da sala...' ...}))
RECURSIVE LeaveMessages(_)
LeaveMessages(names) ==
    IF names = <<>> THEN <<>>
    ELSE <<LeaveMessage(Head(names))>> \o LeaveMessages(Tail(names))

----------------------------------------------------------------------------
(* Handler state *)

NoBody == [to |-> "", text |-> "", type |-> ""]

\* req.query.limit: undefined, or the string of the query
NoLimit == [given |-> FALSE, s |-> <<>>]
Limit(s) == [given |-> TRUE, s |-> s]

Idle ==
    [op |-> "none", pc |-> "idle", name |-> "", body |-> NoBody, found |-> FALSE,
     lastStatus |-> 0, limit |-> NoLimit, resp |-> 0, errors |-> <<>>,
     out |-> <<>>]

SweepIdle ==
    [pc |-> "idle", threshold |-> 0, inactive |-> <<>>, logged |-> FALSE]

Free(r) == reqs[r].pc \in {"idle", "done"}

\* a request is taken into the lowest slot that handles none
CanStart(r) == Free(r) /\ \A q \in 1..(r - 1) : ~Free(q)

Init ==
    /\ participants = <<>>
    /\ messages = <<>>
    /\ clock = 0
    /\ nextSweep = SweepEvery
    /\ reqs = [r \in ReqSlots |-> Idle]
    /\ sweeps = [s \in SweepSlots |-> SweepIdle]

Tick ==
    /\ clock + TickStep <= MaxClock
    /\ clock' = clock + TickStep
    /\ UNCHANGED <<participants, messages, nextSweep, reqs, sweeps>>

----------------------------------------------------------------------------
(* POST /participants *)

\* the request arrives: validation, then 422 or the findOne is issued
RegisterStart(r, body) ==
    /\ CanStart(r)
    /\ LET errors == schemaName(body)
       IN  reqs' = [reqs EXCEPT ![r] =
                IF errors # <<>>
                THEN [Idle EXCEPT !.op = "register", !.pc = "done",
                                  !.resp = 422, !.errors = errors]
                ELSE [Idle EXCEPT !.op = "register", !.pc = "findOne",
                                  !.name = body.name.v]]
    /\ UNCHANGED <<participants, messages, clock, nextSweep, sweeps>>

\* a lookup that also finds every name that ever joined
HandlerFindOneEverJoined(r) ==
    /\ reqs[r].pc = "findOne"
    /\ \/ reqs' = [reqs EXCEPT ![r].pc = "afterFind",
                               ![r].found =
                                   \/ FindOne(participants, reqs[r].name)
                                   \/ \E i \in 1..Len(messages) :
                                          messages[i] = JoinMessage(reqs[r].name)]
       \/ reqs' = [reqs EXCEPT ![r].pc = "done", ![r].resp = 500]
    /\ UNCHANGED <<participants, messages, clock, nextSweep, sweeps>>

\* the store answers a findOne, or fails (the handler's catch answers 500)
HandlerFindOne(r) ==
    /\ reqs[r].pc = "findOne"
    /\ \/ reqs' = [reqs EXCEPT ![r].pc = "afterFind",
                               ![r].found = FindOne(participants, reqs[r].name)]
       \/ reqs' = [reqs EXCEPT ![r].pc = "done", ![r].resp = 500]
    /\ UNCHANGED <<participants, messages, clock, nextSweep, sweeps>>

\* after the findOne: 409, or the user is built with Date.now() and inserted
RegisterAfterFind(r) ==
    /\ reqs[r].op = "register"
    /\ reqs[r].pc = "afterFind"
    /\ reqs' = [reqs EXCEPT ![r] =
            IF reqs[r].found
            THEN [@ EXCEPT !.pc = "done", !.resp = 409, !.found = FALSE]
            ELSE [@ EXCEPT !.pc = "insertUser", !.lastStatus = clock,
                           !.found = FALSE]]
    /\ UNCHANGED <<participants, messages, clock, nextSweep, sweeps>>

RegisterInsertUser(r) ==
    /\ reqs[r].op = "register"
    /\ reqs[r].pc = "insertUser"
    /\ \/ /\ participants' =
                Append(participants, Participant(reqs[r].name, reqs[r].lastStatus))
          /\ reqs' = [reqs EXCEPT ![r].pc = "insertMessage", ![r].lastStatus = 0]
       \/ /\ reqs' = [reqs EXCEPT ![r].pc = "done", ![r].resp = 500,
                                  ![r].lastStatus = 0]
          /\ UNCHANGED participants
    /\ UNCHANGED <<messages, clock, nextSweep, sweeps>>

\* a handler that answers 201 whether or not the message was stored
RegisterInsertMessageUnchecked(r) ==
    /\ reqs[r].op = "register"
    /\ reqs[r].pc = "insertMessage"
    /\ \/ /\ Len(messages) < MaxMessages
          /\ messages' = Append(messages, JoinMessage(reqs[r].name))
       \/ UNCHANGED messages
    /\ reqs' = [reqs EXCEPT ![r].pc = "respond"]
    /\ UNCHANGED <<participants, clock, nextSweep, sweeps>>

RegisterInsertMessage(r) ==
    /\ reqs[r].op = "register"
    /\ reqs[r].pc = "insertMessage"
    /\ \/ /\ Len(messages) < MaxMessages
          /\ messages' = Append(messages, JoinMessage(reqs[r].name))
          /\ reqs' = [reqs EXCEPT ![r].pc = "respond"]
       \/ /\ reqs' = [reqs EXCEPT ![r].pc = "done", ![r].resp = 500]
          /\ UNCHANGED messages
    /\ UNCHANGED <<participants, clock, nextSweep, sweeps>>

RegisterRespond(r) ==
    /\ reqs[r].op = "register"
    /\ reqs[r].pc = "respond"
    /\ reqs' = [reqs EXCEPT ![r].pc = "done", ![r].resp = 201]
    /\ UNCHANGED <<participants, messages, clock, nextSweep, sweeps>>

----------------------------------------------------------------------------
(* removeInactiveUsers, run by setInterval every 15 s *)

\* the timer fires: the threshold is taken and the find is issued, in the
\* lowest slot that runs no sweep
SweepStart(s) ==
    /\ sweeps[s].pc = "idle"
    /\ \A q \in 1..(s - 1) : sweeps[q].pc # "idle"
    /\ clock >= nextSweep
    /\ nextSweep' = clock + SweepEvery
    /\ sweeps' = [sweeps EXCEPT ![s] =
            [SweepIdle EXCEPT !.pc = "find", !.threshold = clock - InactiveAfter]]
    /\ UNCHANGED <<participants, messages, clock, reqs>>

\* a failure that is not caught: the process ends, and every sweep with it
SweepFailUncaught(s) ==
    sweeps' = [q \in SweepSlots |-> [sweeps[q] EXCEPT !.pc = "crashed",
                                                      !.logged = (q = s)]]

\* the failure of a store operation: logged, the invocation ends
SweepFail(s) ==
    sweeps' = [sweeps EXCEPT ![s].pc = "idle", ![s].logged = TRUE]

\* the store answers the find; the messages and the names are built, and the
\* first of insertMany and deleteMany that has something to do is issued
SweepFind(s) ==
    /\ sweeps[s].pc = "find"
    /\ \/ LET inactive == NamesOf(FindInactive(participants, sweeps[s].threshold))
          IN  sweeps' = [sweeps EXCEPT
                    ![s].inactive = inactive,
                    ![s].pc = IF Len(inactive) > 0 THEN "insertMany" ELSE "idle"]
       \/ SweepFail(s)
    /\ UNCHANGED <<participants, messages, clock, nextSweep, reqs>>

\* a sweep that goes on to the deleteMany when the insertMany has failed
SweepInsertManyThenDeleteAnyway(s) ==
    /\ sweeps[s].pc = "insertMany"
    /\ \/ /\ Len(messages) + Len(sweeps[s].inactive) <= MaxMessages
          /\ messages' = messages \o LeaveMessages(sweeps[s].inactive)
          /\ sweeps' = [sweeps EXCEPT ![s].pc = "deleteMany"]
       \/ /\ sweeps' = [sweeps EXCEPT ![s].pc = "deleteMany", ![s].logged = TRUE]
          /\ UNCHANGED messages
    /\ UNCHANGED <<participants, clock, nextSweep, reqs>>

SweepInsertMany(s) ==
    /\ sweeps[s].pc = "insertMany"
    /\ \/ /\ Len(messages) + Len(sweeps[s].inactive) <= MaxMessages
          /\ messages' = messages \o LeaveMessages(sweeps[s].inactive)
          /\ sweeps' = [sweeps EXCEPT ![s].pc = "deleteMany"]
       \/ /\ SweepFail(s)
          /\ UNCHANGED messages
    /\ UNCHANGED <<participants, clock, nextSweep, reqs>>

SweepDeleteMany(s) ==
    /\ sweeps[s].pc = "deleteMany"
    /\ \/ /\ participants' = DeleteMany(participants, sweeps[s].inactive)
          /\ sweeps' = [sweeps EXCEPT ![s].pc = "idle"]
       \/ /\ SweepFail(s)
          /\ UNCHANGED participants
    /\ UNCHANGED <<messages, clock, nextSweep, reqs>>

----------------------------------------------------------------------------
(* POST /messages *)

\* schemaMessage: to, text and type required strings, type one of two values
schemaMessage(body) ==
    StringRequiredErrors(body, "to")
    \o StringRequiredErrors(body, "text")
    \o (IF "type" \in DOMAIN body /\ body["type"].t = "string"
           /\ body["type"].v \notin {"message", "private_message", ""}
        THEN <<"type must be one of [message, private_message]">>
        ELSE StringRequiredErrors(body, "type"))
    \o UnknownKeyErrors(DOMAIN body, {"to", "text", "type"})

MessageBodies ==
    { [to |-> Str("Todos"), text |-> Str("oi"), type |-> Str("message")],
      [to |-> Str("a"), text |-> Str("oi"), type |-> Str("private_message")],
      [to |-> Str("Todos"), text |-> Str(""), type |-> Str("status")] }

PostedMessage(user, body) ==
    [from |-> user, to |-> body.to, text |-> body.text, type |-> body.type]

MessageStart(r, user, body) ==
    /\ CanStart(r)
    /\ LET errors == schemaMessage(body)
       IN  reqs' = [reqs EXCEPT ![r] =
                IF errors # <<>>
                THEN [Idle EXCEPT !.op = "message", !.pc = "done",
                                  !.resp = 422, !.errors = errors]
                ELSE [Idle EXCEPT !.op = "message", !.pc = "findOne",
                                  !.name = user,
                                  !.body = [to |-> body.to.v, text |-> body.text.v,
                                            type |-> body.type.v]]]
    /\ UNCHANGED <<participants, messages, clock, nextSweep, sweeps>>

\* a handler that inserts the message whatever the findOne answered
MessageAfterFindNoCheck(r) ==
    /\ reqs[r].op = "message"
    /\ reqs[r].pc = "afterFind"
    /\ reqs' = [reqs EXCEPT ![r].pc = "insertMessage", ![r].found = FALSE]
    /\ UNCHANGED <<participants, messages, clock, nextSweep, sweeps>>

\* after the findOne: 422 for an unknown sender, or the message is inserted
MessageAfterFind(r) ==
    /\ reqs[r].op = "message"
    /\ reqs[r].pc = "afterFind"
    /\ reqs' = [reqs EXCEPT ![r] =
            IF ~reqs[r].found
            THEN [@ EXCEPT !.pc = "done", !.resp = 422, !.body = NoBody]
            ELSE [@ EXCEPT !.pc = "insertMessage", !.found = FALSE]]
    /\ UNCHANGED <<participants, messages, clock, nextSweep, sweeps>>

\* an insert that puts the new message first
MessageInsertAtHead(r) ==
    /\ reqs[r].op = "message"
    /\ reqs[r].pc = "insertMessage"
    /\ \/ /\ Len(messages) < MaxMessages
          /\ messages' = <<PostedMessage(reqs[r].name, reqs[r].body)>> \o messages
          /\ reqs' = [reqs EXCEPT ![r].pc = "respond", ![r].body = NoBody]
       \/ /\ reqs' = [reqs EXCEPT ![r].pc = "done", ![r].resp = 500,
                                  ![r].body = NoBody]
          /\ UNCHANGED messages
    /\ UNCHANGED <<participants, clock, nextSweep, sweeps>>

MessageInsert(r) ==
    /\ reqs[r].op = "message"
    /\ reqs[r].pc = "insertMessage"
    /\ \/ /\ Len(messages) < MaxMessages
          /\ messages' = Append(messages, PostedMessage(reqs[r].name, reqs[r].body))
          /\ reqs' = [reqs EXCEPT ![r].pc = "respond", ![r].body = NoBody]
       \/ /\ reqs' = [reqs EXCEPT ![r].pc = "done", ![r].resp = 500,
                                  ![r].body = NoBody]
          /\ UNCHANGED messages
    /\ UNCHANGED <<participants, clock, nextSweep, sweeps>>

MessageRespond(r) ==
    /\ reqs[r].op = "message"
    /\ reqs[r].pc = "respond"
    /\ reqs' = [reqs EXCEPT ![r].pc = "done", ![r].resp = 201]
    /\ UNCHANGED <<participants, messages, clock, nextSweep, sweeps>>

----------------------------------------------------------------------------
(* POST /status *)

StatusStart(r, user) ==
    /\ CanStart(r)
    /\ reqs' = [reqs EXCEPT ![r] =
            [Idle EXCEPT !.op = "status", !.pc = "findOne", !.name = user]]
    /\ UNCHANGED <<participants, messages, clock, nextSweep, sweeps>>

\* after the findOne: 404, or the updateOne is issued with Date.now()
StatusAfterFind(r) ==
    /\ reqs[r].op = "status"
    /\ reqs[r].pc = "afterFind"
    /\ reqs' = [reqs EXCEPT ![r] =
            IF ~reqs[r].found
            THEN [@ EXCEPT !.pc = "done", !.resp = 404]
            ELSE [@ EXCEPT !.pc = "updateOne", !.lastStatus = clock,
                           !.found = FALSE]]
    /\ UNCHANGED <<participants, messages, clock, nextSweep, sweeps>>

StatusUpdateOne(r) ==
    /\ reqs[r].op = "status"
    /\ reqs[r].pc = "updateOne"
    /\ \/ /\ participants' =
                UpdateOne(participants, reqs[r].name, reqs[r].lastStatus)
          /\ reqs' = [reqs EXCEPT ![r].pc = "respond"]
       \/ /\ reqs' = [reqs EXCEPT ![r].pc = "done", ![r].resp = 500]
          /\ UNCHANGED participants
    /\ UNCHANGED <<messages, clock, nextSweep, sweeps>>

StatusRespond(r) ==
    /\ reqs[r].op = "status"
    /\ reqs[r].pc = "respond"
    /\ reqs' = [reqs EXCEPT ![r].pc = "done", ![r].resp = 200]
    /\ UNCHANGED <<participants, messages, clock, nextSweep, sweeps>>

----------------------------------------------------------------------------
(* GET /messages *)

Digits == <<"0", "1", "2", "3", "4", "5", "6", "7", "8", "9">>
IsDigit(c) == \E d \in 1..10 : Digits[d] = c
DigitValue(c) == (CHOOSE d \in 1..10 : Digits[d] = c) - 1

\* the value of a string of digits
RECURSIVE Decimal(_)
Decimal(s) ==
    IF s = <<>> THEN 0
    ELSE 10 * Decimal(SubSeq(s, 1, Len(s) - 1)) + DigitValue(s[Len(s)])

AllDigits(s) == \A i \in 1..Len(s) : IsDigit(s[i])

NaN == [nan |-> TRUE, neg |-> FALSE, int |-> 0, frac |-> FALSE]

\* +limit on a string of the characters + - . 0..9 and letters: the empty
\* string is 0; a decimal literal (sign, digits, point, digits; digits on at
\* least one side of the point) is its value; anything else is NaN.  A value
\* is kept as its sign, its integer part and whether it has a fraction.
ToNumber(s) ==
    LET signed == s # <<>> /\ s[1] \in {"+", "-"}
        body   == IF signed THEN Tail(s) ELSE s
        points == {i \in 1..Len(body) : body[i] = "."}
        whole  == IF points = {} THEN body
                  ELSE SubSeq(body, 1, (CHOOSE i \in points : TRUE) - 1)
        part   == IF points = {} THEN <<>>
                  ELSE SubSeq(body, (CHOOSE i \in points : TRUE) + 1, Len(body))
    IN  IF s = <<>> THEN [NaN EXCEPT !.nan = FALSE]
        ELSE IF \/ Cardinality(points) > 1
                \/ ~AllDigits(whole) \/ ~AllDigits(part)
                \/ (whole = <<>> /\ part = <<>>)
             THEN NaN
             ELSE [nan |-> FALSE, neg |-> signed /\ s[1] = "-",
                   int |-> Decimal(whole), frac |-> Decimal(part) # 0]

\* Number.isInteger(x)
IsInteger(x) == ~x.nan /\ ~x.frac

\* x < 1
LessThanOne(x) == ~x.nan /\ (x.neg \/ x.int < 1)

\* a check of the limit that leaves out Number.isInteger
BadLimitNoIntegerCheck(limit) ==
    limit.given /\ LessThanOne(ToNumber(limit.s))

\* limit !== undefined && (!Number.isInteger(+limit) || +limit < 1)
BadLimit(limit) ==
    limit.given /\ (~IsInteger(ToNumber(limit.s)) \/ LessThanOne(ToNumber(limit.s)))

\* find({ $or: [{ to: user }, { to: "Todos" }, { from: user }] }).toArray()
FindMessages(ms, user) ==
    SelectSeq(ms, LAMBDA m : m.to = user \/ m.to = "Todos" \/ m.from = user)

\* the first -start elements in place of the last
SliceFromStart(a, start) ==
    SubSeq(a, 1, IF 0 - start > Len(a) THEN Len(a) ELSE 0 - start)

\* Array.prototype.slice(start): a negative start counts from the end, and
\* the start is kept within the array
Slice(a, start) ==
    LET from == IF start < 0 THEN (IF Len(a) + start < 0 THEN 0 ELSE Len(a) + start)
                ELSE (IF start > Len(a) THEN Len(a) ELSE start)
    IN  SubSeq(a, from + 1, Len(a))

ListStart(r, user, limit) ==
    /\ CanStart(r)
    /\ reqs' = [reqs EXCEPT ![r] =
            IF BadLimit(limit)
            THEN [Idle EXCEPT !.op = "list", !.pc = "done", !.name = user,
                              !.limit = limit, !.resp = 422]
            ELSE [Idle EXCEPT !.op = "list", !.pc = "find", !.name = user,
                              !.limit = limit]]
    /\ UNCHANGED <<participants, messages, clock, nextSweep, sweeps>>

\* the store answers the find, or fails
ListFind(r) ==
    /\ reqs[r].pc = "find"
    /\ \/ reqs' = [reqs EXCEPT ![r].pc = "respond",
                               ![r].out = FindMessages(messages, reqs[r].name)]
       \/ reqs' = [reqs EXCEPT ![r].pc = "done", ![r].resp = 500]
    /\ UNCHANGED <<participants, messages, clock, nextSweep, sweeps>>

\* res.send(messages), or res.send(messages.slice(-limitInt))
ListRespond(r) ==
    /\ reqs[r].op = "list"
    /\ reqs[r].pc = "respond"
    /\ reqs' = [reqs EXCEPT
            ![r].pc = "done",
            ![r].resp = 200,
            ![r].out = IF ~reqs[r].limit.given THEN @
                       ELSE Slice(@, 0 - ToNumber(reqs[r].limit.s).int)]
    /\ UNCHANGED <<participants, messages, clock, nextSweep, sweeps>>

----------------------------------------------------------------------------
(* The handlers of one kind of request, the sweep, the clock *)

Register(bodies) ==
    \/ \E r \in ReqSlots, body \in bodies : RegisterStart(r, body)
    \/ \E r \in ReqSlots : RegisterAfterFind(r)
    \/ \E r \in ReqSlots : RegisterInsertUser(r)
    \/ \E r \in ReqSlots : RegisterInsertMessage(r)
    \/ \E r \in ReqSlots : RegisterRespond(r)

PostMessage ==
    \/ \E r \in ReqSlots, user \in Names, body \in MessageBodies :
            MessageStart(r, user, body)
    \/ \E r \in ReqSlots : MessageAfterFind(r)
    \/ \E r \in ReqSlots : MessageInsert(r)
    \/ \E r \in ReqSlots : MessageRespond(r)

Status ==
    \/ \E r \in ReqSlots, user \in Names : StatusStart(r, user)
    \/ \E r \in ReqSlots : StatusAfterFind(r)
    \/ \E r \in ReqSlots : StatusUpdateOne(r)
    \/ \E r \in ReqSlots : StatusRespond(r)

\* one request on a store: the answer is a function of the store and the query
ListMessages(limits) ==
    \/ \E user \in Names, limit \in limits :
            reqs[1].pc = "idle" /\ ListStart(1, user, limit)
    \/ ListFind(1)
    \/ ListRespond(1)

Sweep ==
    \/ \E s \in SweepSlots : SweepStart(s)
    \/ \E s \in SweepSlots : SweepFind(s)
    \/ \E s \in SweepSlots : SweepInsertMany(s)
    \/ \E s \in SweepSlots : SweepDeleteMany(s)

StoreFindOne == \E r \in ReqSlots : HandlerFindOne(r)

\* the sequences over S of length at most n
RECURSIVE SeqsUpTo(_, _)
SeqsUpTo(S, n) ==
    IF n = 0 THEN {<<>>}
    ELSE LET shorter == SeqsUpTo(S, n - 1)
         IN  shorter \cup {Append(q, x) : q \in shorter, x \in S}

----------------------------------------------------------------------------
(* Registration: requests for one name and requests that fail validation,
   the sweep and the clock, from the empty store *)

RegisterBodiesOf(names) ==
    {b \in RegisterBodies :
        ("name" \in DOMAIN b /\ b.name.v \in Names) => b.name.v \in names}

Next ==
    \/ Tick
    \/ StoreFindOne
    \/ Register(RegisterBodiesOf({"a"}))
    \/ Sweep

Spec == Init /\ [][Next]_vars

(* The room: a is a participant since time 0, b is none.  Heartbeats of
   both, the sweep and the clock. *)

InitRoom ==
    /\ participants = <<Participant("a", 0)>>
    /\ messages = <<JoinMessage("a")>>
    /\ clock = 0
    /\ nextSweep = SweepEvery
    /\ reqs = [r \in ReqSlots |-> Idle]
    /\ sweeps = [s \in SweepSlots |-> SweepIdle]

NextHeartbeat ==
    \/ Tick
    \/ StoreFindOne
    \/ Status
    \/ Sweep

SpecHeartbeat == InitRoom /\ [][NextHeartbeat]_vars

(* The same room: posts of both, the sweep and the clock. *)

NextMessage ==
    \/ Tick
    \/ StoreFindOne
    \/ PostMessage
    \/ Sweep

SpecMessage == InitRoom /\ [][NextMessage]_vars

(* The sweep alone, the timer due, over every store of at most MaxStore
   participants with the times of status the clock has taken.  Two
   participants of one name are a store the program reaches: two register
   requests for the name that both pass the findOne before either inserts. *)

Times == {t \in 0..SweepEvery : t % TickStep = 0}

Stores == SeqsUpTo({Participant(n, t) : n \in Names, t \in Times}, MaxStore)

InitSweep ==
    /\ participants \in Stores
    /\ messages = <<>>
    /\ clock = SweepEvery
    /\ nextSweep = SweepEvery
    /\ reqs = [r \in ReqSlots |-> Idle]
    /\ sweeps = [s \in SweepSlots |-> SweepIdle]

NextSweep ==
    \/ Tick
    \/ Sweep

SpecSweep == InitSweep /\ [][NextSweep]_vars

(* The reaper over time: one participant, registered before the clock's 0,
   with its join message; the timer is due at 0 and again 15 s after each
   sweep.  No heartbeat reaches the participant.  The store may fail during
   the first period and succeeds from then on.  Two sweeps run at the same
   time when the store is slow. *)

InitReaper ==
    /\ \E n \in Names, t \in Times \ {0} :
            /\ participants = <<Participant(n, 0 - t)>>
            /\ messages = <<JoinMessage(n)>>
    /\ clock = 0
    /\ nextSweep = 0
    /\ reqs = [r \in ReqSlots |-> Idle]
    /\ sweeps = [s \in SweepSlots |-> SweepIdle]

\* a step in which a sweep logs an error
SweepLogs == \E s \in SweepSlots : sweeps'[s].logged /\ ~sweeps[s].logged

SweepWhileStoreRecovers == Sweep /\ (clock >= SweepEvery => ~SweepLogs)

\* the timer fires when it is due, before the clock moves on
TickOnTime == Tick /\ clock < nextSweep

NextReaper ==
    \/ TickOnTime
    \/ SweepWhileStoreRecovers

\* the clock advances, the interval timer fires when it is due, and the store
\* answers every operation of a sweep
SpecReaper ==
    /\ InitReaper
    /\ [][NextReaper]_vars
    /\ WF_vars(TickOnTime)
    /\ WF_vars(SweepWhileStoreRecovers)

(* GET /messages over every store of at most MaxMessages messages and every
   query string of at most MaxLimitLen characters *)

MessageKinds ==
    { JoinMessage("b"),
      [from |-> "a", to |-> "b", text |-> "oi", type |-> "private_message"],
      [from |-> "b", to |-> "a", text |-> "oi", type |-> "private_message"],
      [from |-> "b", to |-> "b", text |-> "oi", type |-> "private_message"] }

LimitChars == {"0", "1", "2", "-", ".", "a"}

Limits == {NoLimit} \cup {Limit(s) : s \in SeqsUpTo(LimitChars, MaxLimitLen)}

InitList ==
    /\ participants = <<>>
    /\ messages \in SeqsUpTo(MessageKinds, MaxMessages)
    /\ clock = 0
    /\ nextSweep = SweepEvery
    /\ reqs = [r \in ReqSlots |-> Idle]
    /\ sweeps = [s \in SweepSlots |-> SweepIdle]

NextList == ListMessages(Limits)

SpecList == InitList /\ [][NextList]_vars

----------------------------------------------------------------------------
(* Registration *)

\* r handles a register request for n that was answered with `code`
Registered(r, n, code) ==
    /\ reqs[r].op = "register"
    /\ reqs[r].pc = "done"
    /\ reqs[r].name = n
    /\ reqs[r].resp = code

(* C1: in every reachable state the participants collection holds at most
   one participant of each name. *)
C1_UniqueNames ==
    \A n \in Names : CountName(participants, n) <= 1

(* C2: when a register request for n was answered 201 and n is a participant,
   a register request for n whose findOne found n is then answered 409
   without a write to either collection, and the store holds exactly one
   participant named n afterwards. *)
C2_SecondRegisterIs409 ==
    [][\A r \in ReqSlots :
        ( /\ reqs[r].op = "register"
          /\ reqs[r].pc = "afterFind"
          /\ reqs[r].found
          /\ FindOne(participants, reqs[r].name)
          /\ \E q \in ReqSlots \ {r} : Registered(q, reqs[r].name, 201)
          /\ reqs'[r] # reqs[r] )
        => ( /\ reqs'[r].pc = "done"
             /\ reqs'[r].resp = 409
             /\ participants' = participants
             /\ messages' = messages
             /\ CountName(participants', reqs[r].name) = 1 )]_vars

\* the payload has a name that is a string and not empty
HasName(body) ==
    /\ "name" \in DOMAIN body
    /\ body.name.t = "string"
    /\ body.name.v # ""

(* C10: a register request whose payload has no name, or a name that is not
   a non-empty string, is answered 422 with a non-empty list of errors on
   arrival; it issues no store operation, and neither collection changes. *)
C10_InvalidRegisterIs422 ==
    [][\A r \in ReqSlots, body \in RegisterBodies :
        (~HasName(body) /\ RegisterStart(r, body))
        => ( /\ reqs'[r].pc = "done"
             /\ reqs'[r].resp = 422
             /\ reqs'[r].errors # <<>>
             /\ participants' = participants
             /\ messages' = messages )]_vars

\* a request was answered 422 with its errors while a participant is in the
\* store, put there by another request
C10_Witness ==
    \E r \in ReqSlots :
        /\ reqs[r].op = "register"
        /\ reqs[r].pc = "done"
        /\ reqs[r].resp = 422
        /\ Len(reqs[r].errors) >= 1
        /\ participants # <<>>

----------------------------------------------------------------------------
(* Heartbeat and sweep *)

(* C3: a participant whose lastStatus is a time before the start of a sweep
   and less than 10 s before it is still a participant when the deleteMany of
   that sweep is done. *)
C3_FreshSurvivesSweep ==
    [][\A s \in SweepSlots :
        (sweeps[s].pc = "deleteMany" /\ sweeps'[s] # sweeps[s])
        => \A i \in 1..Len(participants) :
             ( /\ participants[i].lastStatus > sweeps[s].threshold
               /\ participants[i].lastStatus < sweeps[s].threshold + InactiveAfter )
             => FindOne(participants', participants[i].name)]_vars

(* C7: a heartbeat whose findOne is answered for a name that is no
   participant finds none and is answered 404, and no step of a heartbeat
   adds a document to participants. *)
C7_UnknownHeartbeatIs404 ==
    [][\A r \in ReqSlots :
        /\ ( /\ reqs[r].op = "status"
             /\ reqs[r].pc = "findOne"
             /\ reqs'[r].pc = "afterFind"
             /\ ~FindOne(participants, reqs[r].name) )
           => ~reqs'[r].found
        /\ ( /\ reqs[r].op = "status"
             /\ reqs[r].pc = "afterFind"
             /\ ~reqs[r].found
             /\ reqs'[r] # reqs[r] )
           => (reqs'[r].pc = "done" /\ reqs'[r].resp = 404)
        /\ ( /\ reqs[r].op = "status" \/ reqs'[r].op = "status"
             /\ reqs'[r] # reqs[r] )
           => ( /\ Len(participants') <= Len(participants)
                /\ \A n \in Names :
                     FindOne(participants', n) => FindOne(participants, n) )]_vars

\* a heartbeat of one name was answered 404, and the updateOne of another was
\* done after the sweep had deleted its participant
C7_Witness ==
    \E r, q \in ReqSlots :
        /\ reqs[r].op = "status"
        /\ reqs[r].pc = "done"
        /\ reqs[r].resp = 404
        /\ ~FindOne(participants, reqs[r].name)
        /\ reqs[q].op = "status"
        /\ reqs[q].pc = "respond"
        /\ reqs[q].name # reqs[r].name
        /\ participants = <<>>

(* C8: when the updateOne of a heartbeat for n is done and the heartbeat goes
   on to answer 200, n is a participant whose lastStatus is the clock value
   the heartbeat took. *)
C8_Heartbeat200SetsLastStatus ==
    [][\A r \in ReqSlots :
        ( /\ reqs[r].op = "status"
          /\ reqs[r].pc = "updateOne"
          /\ reqs'[r].pc = "respond" )
        => \E i \in 1..Len(participants') :
             /\ participants'[i].name = reqs[r].name
             /\ participants'[i].lastStatus = reqs[r].lastStatus]_vars

----------------------------------------------------------------------------
(* The sweep *)

HasMessage(m) == \E j \in 1..Len(messages) : messages[j] = m

(* C4: a sweep that runs alone and without a store error removes exactly the
   participants with lastStatus <= now - 10, leaves every other participant
   as it is, and leaves a leave message of every removed name in messages. *)
C4_SweepRemovesExactlyStale ==
    [][\A s \in SweepSlots :
        ( /\ sweeps[s].pc = "deleteMany"
          /\ sweeps'[s].pc = "idle"
          /\ ~sweeps'[s].logged )
        => ( /\ participants' =
                    SelectSeq(participants,
                              LAMBDA p : p.lastStatus > sweeps[s].threshold)
             /\ \A i \in 1..Len(participants) :
                    participants[i].lastStatus <= sweeps[s].threshold
                    => \E j \in 1..Len(messages') :
                         messages'[j] = LeaveMessage(participants[i].name) )]_vars

(* C5: in every step that removes a name from participants, a leave message
   of that name is in messages before the step. *)
C5_LeaveBeforeDelete ==
    [][\A i \in 1..Len(participants) :
        ~FindOne(participants', participants[i].name)
        => HasMessage(LeaveMessage(participants[i].name))]_vars

\* a sweep has found participants, inserted their leave messages and deleted
\* them without an error, and a participant that was not stale is left
C5_Witness ==
    \E s \in SweepSlots :
        /\ sweeps[s].pc = "idle"
        /\ ~sweeps[s].logged
        /\ sweeps[s].inactive # <<>>
        /\ \A i \in 1..Len(sweeps[s].inactive) :
             /\ ~FindOne(participants, sweeps[s].inactive[i])
             /\ HasMessage(LeaveMessage(sweeps[s].inactive[i]))
        /\ participants # <<>>

----------------------------------------------------------------------------
(* Posting *)

(* C6: a post whose findOne is answered for a sender that is no participant
   finds none and is answered 422, and no step of that request changes
   messages. *)
C6_UnknownSenderIs422 ==
    [][\A r \in ReqSlots :
        /\ ( /\ reqs[r].op = "message"
             /\ reqs[r].pc = "findOne"
             /\ reqs'[r].pc = "afterFind"
             /\ ~FindOne(participants, reqs[r].name) )
           => (~reqs'[r].found /\ messages' = messages)
        /\ ( /\ reqs[r].op = "message"
             /\ reqs[r].pc = "afterFind"
             /\ ~reqs[r].found
             /\ reqs'[r] # reqs[r] )
           => ( /\ reqs'[r].pc = "done"
                /\ reqs'[r].resp = 422
                /\ messages' = messages )]_vars

\* a post with a valid payload was answered 422: its sender is no participant
C6_Witness ==
    \E r \in ReqSlots :
        /\ reqs[r].op = "message"
        /\ reqs[r].pc = "done"
        /\ reqs[r].resp = 422
        /\ reqs[r].errors = <<>>
        /\ ~FindOne(participants, reqs[r].name)
        /\ messages = <<JoinMessage("a")>>

----------------------------------------------------------------------------
(* Listing *)

Visible(m, reader) == m.to = reader \/ m.to = "Todos" \/ m.from = reader

Min(a, b) == IF a < b THEN a ELSE b

(* C9: a list request answered 200 returns the stored messages to the reader,
   to "Todos" or from the reader, in the order of the store; with a limit k
   it returns the last min(k, length) of them in that order. *)
C9_ListIsLastOfVisible ==
    \A r \in ReqSlots :
        (reqs[r].op = "list" /\ reqs[r].pc = "done" /\ reqs[r].resp = 200)
        => LET f == SelectSeq(messages, LAMBDA m : Visible(m, reqs[r].name))
               k == ToNumber(reqs[r].limit.s).int
           IN  IF reqs[r].limit.given
               THEN /\ k >= 1
                    /\ reqs[r].out = SubSeq(f, Len(f) - Min(k, Len(f)) + 1, Len(f))
               ELSE reqs[r].out = f

\* of three stored messages two are visible to the reader, who asked for one
C9_Witness ==
    \E r \in ReqSlots :
        /\ reqs[r].op = "list"
        /\ reqs[r].pc = "done"
        /\ reqs[r].resp = 200
        /\ reqs[r].limit.given
        /\ Len(messages) = 3
        /\ Len(FindMessages(messages, reqs[r].name)) = 2
        /\ Len(reqs[r].out) = 1
        /\ reqs[r].out[1] = messages[3]

\* the text writes a positive integer: digits of which one is not 0, with at
\* most one point after them and nothing but zeros after the point
WritesPositiveInteger(s) ==
    LET points == {i \in 1..Len(s) : s[i] = "."}
        stop   == IF points = {} THEN Len(s) + 1
                  ELSE CHOOSE i \in points : \A j \in points : i <= j
    IN  /\ \A i \in 1..(stop - 1) : s[i] \in {"0", "1", "2"}
        /\ \E i \in 1..(stop - 1) : s[i] # "0"
        /\ \A i \in (stop + 1)..Len(s) : s[i] = "0"

(* C11: a list request is answered 422 exactly when its limit is given and
   does not write a positive integer (it is not a number, or zero, negative
   or fractional), and a 422 returns no messages. *)
C11_BadLimitIs422 ==
    \A r \in ReqSlots :
        (reqs[r].op = "list" /\ reqs[r].pc = "done")
        => /\ reqs[r].resp = 422
              <=> (reqs[r].limit.given /\ ~WritesPositiveInteger(reqs[r].limit.s))
           /\ reqs[r].resp = 422 => reqs[r].out = <<>>

\* a request with the fractional limit .1 was answered 422 on a store with
\* messages visible to the reader
C11_Witness ==
    \E r \in ReqSlots :
        /\ reqs[r].op = "list"
        /\ reqs[r].pc = "done"
        /\ reqs[r].resp = 422
        /\ reqs[r].limit = Limit(<<".", "1">>)
        /\ FindMessages(messages, reqs[r].name) # <<>>

----------------------------------------------------------------------------
(* The reaper over time *)

(* C12: a store error in a sweep does not end the schedule: when no heartbeat
   reaches a participant and the store succeeds from some time on, then, the
   timer firing and the store answering, the participant is eventually
   removed from participants. *)
C12_StaleEventuallyRemoved ==
    \A n \in Names : FindOne(participants, n) ~> ~FindOne(participants, n)

\* the first sweep inserted the leave message and failed in its deleteMany;
\* the next one, alone, inserted again and removed the participant
C12_Witness ==
    /\ participants = <<>>
    /\ Len(messages) = 3
    /\ messages[2] = messages[3]
    /\ sweeps[1].pc = "idle"
    /\ ~sweeps[1].logged
    /\ sweeps[1].inactive # <<>>
    /\ sweeps[2] = SweepIdle

----------------------------------------------------------------------------
(* The message log *)

IsPrefix(a, b) == Len(a) <= Len(b) /\ SubSeq(b, 1, Len(a)) = a

(* C13: messages is append-only: in every step, of a post, of the sweep or of
   anything else, the sequence before the step is a prefix of the sequence
   after it. *)
C13_MessagesAppendOnly == [][IsPrefix(messages, messages')]_vars

\* a posted message and a leave message were appended to the join message
C13_Witness ==
    /\ Len(messages) = 3
    /\ messages[1] = JoinMessage("a")
    /\ \E i, j \in 2..3 : /\ messages[i] = LeaveMessage("a")
                          /\ messages[j].type \notin {"status"}

----------------------------------------------------------------------------
(* What a 201 of POST /participants stands for *)

\* request r comes to position pc in this step
Reaches(r, pc) == reqs'[r].op = "register" /\ reqs'[r].pc = pc /\ reqs[r].pc # pc

(* C14: a register request is answered 201 only from the position after the
   insert of the join message; it comes there only by the store taking the
   status message from n to Todos, and to that insert only by the store
   taking participant n with the lastStatus the handler read from the clock
   after its lookup.  So a 201 means both inserts succeeded, the participant
   first, and a failed insert is never followed by 201. *)
C14_Created201MeansBothInserted ==
    [][\A r \in ReqSlots :
          /\ (Reaches(r, "done") /\ reqs'[r].resp = 201)
             => /\ reqs[r].op = "register"
                /\ reqs[r].pc = "respond"
          /\ Reaches(r, "respond")
             => /\ reqs[r].op = "register"
                /\ reqs[r].pc = "insertMessage"
                /\ messages' = Append(messages, JoinMessage(reqs[r].name))
                /\ UNCHANGED participants
          /\ Reaches(r, "insertMessage")
             => /\ reqs[r].op = "register"
                /\ reqs[r].pc = "insertUser"
                /\ participants' = Append(participants,
                                     Participant(reqs[r].name, reqs[r].lastStatus))
                /\ UNCHANGED messages
          /\ Reaches(r, "insertUser")
             => /\ reqs'[r].lastStatus = clock
                /\ UNCHANGED <<participants, messages>>
      ]_vars

\* a answered 201, the participant and the join message in the store
C14_Witness ==
    \E r \in ReqSlots :
        /\ Registered(r, "a", 201)
        /\ participants = <<Participant("a", 5)>>
        /\ messages = <<JoinMessage("a")>>

----------------------------------------------------------------------------
(* The sender of a stored message *)

(* C15: in the step in which the store takes a posted message, its sender is
   a participant, however the handler's findOne and insertOne interleave with
   the sweep's deleteMany. *)
C15_SenderPresentAtInsert ==
    [][\A r \in ReqSlots :
          (/\ reqs[r].op = "message"
           /\ reqs[r].pc = "insertMessage"
           /\ messages' # messages)
          => FindOne(participants, reqs[r].name)
      ]_vars

----------------------------------------------------------------------------
(* Participants and their join messages *)

RegisterInFlight ==
    \E r \in ReqSlots : reqs[r].op = "register" /\ reqs[r].pc \notin {"idle", "done"}

(* C16: whenever no register request is in flight, every name in participants
   has a join message (status, to Todos, from that name) in messages, also
   after a register request that met a store failure and was answered 500. *)
C16_ParticipantHasJoinMessage ==
    ~RegisterInFlight
    => \A i \in 1..Len(participants) : HasMessage(JoinMessage(participants[i].name))

----------------------------------------------------------------------------
(* Leave notices *)

CountMessage(m) == Cardinality({i \in 1..Len(messages) : messages[i] = m})

(* C17: for every name, messages never holds more leave messages than join
   messages, also when a deleteMany fails and the next sweep tries again, and
   when two sweeps run at the same time. *)
C17_LeavesAtMostJoins ==
    \A n \in Names : CountMessage(LeaveMessage(n)) <= CountMessage(JoinMessage(n))

----------------------------------------------------------------------------
(* A sweep with nothing to do *)

(* C18: a sweep whose find meets no participant with lastStatus <= threshold
   (the clock at its start less 10 s) ends with the find: it writes neither
   participants nor messages. *)
C18_EmptySweepWritesNothing ==
    [][\A s \in SweepSlots :
          (/\ sweeps[s].pc = "find"
           /\ sweeps'[s].pc # "find"
           /\ \A i \in 1..Len(participants) :
                  participants[i].lastStatus > sweeps[s].threshold)
          => /\ sweeps'[s].pc = "idle"
             /\ UNCHANGED <<participants, messages>>
      ]_vars

\* a sweep over a store of fresh participants has ended without an error
C18_Witness ==
    /\ participants # <<>>
    /\ nextSweep > clock
    /\ \E s \in SweepSlots :
          /\ sweeps[s].pc = "idle"
          /\ ~sweeps[s].logged
          /\ sweeps[s].inactive = <<>>
          /\ \A i \in 1..Len(participants) :
                 participants[i].lastStatus > sweeps[s].threshold

----------------------------------------------------------------------------
(* A name after its removal *)

(* C19: a name is refused with 409 only when the lookup of the request found
   a participant of that name in the store.  A request that looks the name up
   after the sweep removed it finds nothing, is not refused, and goes on to
   insert the participant with the clock's value of that moment; so the name
   can be registered again and the participant is fresh. *)
C19_NameFreeAfterRemoval ==
    [][\A r \in ReqSlots :
          /\ Reaches(r, "afterFind")
             => (reqs'[r].found <=> FindOne(participants, reqs[r].name))
          /\ (Reaches(r, "done") /\ reqs'[r].resp = 409)
             => /\ reqs[r].pc = "afterFind"
                /\ reqs[r].found
          /\ (/\ reqs[r].op = "register"
              /\ reqs[r].pc = "afterFind"
              /\ ~reqs[r].found
              /\ reqs'[r] # reqs[r])
             => /\ reqs'[r].pc = "insertUser"
                /\ reqs'[r].lastStatus = clock
      ]_vars

\* a joined, was removed by the sweep, registered again and was answered 201
C19_Witness ==
    /\ messages = <<JoinMessage("a"), LeaveMessage("a"), JoinMessage("a")>>
    /\ Len(participants) = 1
    /\ participants[1].name = "a"
    /\ participants[1].lastStatus >= SweepEvery
    /\ \E r \in ReqSlots : Registered(r, "a", 201)

====
